---- MODULE Spec2Model ----
(***************************************************************************)
(* A model of PulsarBlockGibbs (src/pulsar_gibbs.py): the outer Gibbs loop  *)
(* of sample(), the block samplers it calls, the sufficient-statistics      *)
(* cache (TNT, d) and the chain snapshots of the output directory.          *)
(*                                                                          *)
(* Four specifications share the object's fields:                           *)
(*   Spec       sample(), one action per statement group of its loop body;  *)
(*   SpecWhite  update_white_params, one action per Metropolis step;        *)
(*   SpecRed    update_red_params, one action per engine step;              *)
(*   SpecBlocks update_white_params and update_gwrho_params, called one by  *)
(*              one on the same object.                                     *)
(*                                                                          *)
(* Real-valued quantities are abstracted to small integer tokens:           *)
(* the parameter at position p takes a value of ValsAt(p), a latent draw is *)
(* a token of BDraws (0 is the all-zero vector of __init__), and a          *)
(* log-likelihood is an integer score that tells two states apart.          *)
(***************************************************************************)
EXTENDS Integers, Sequences, FiniteSets, TLC

\* ------------------------------------------------------------------ bounds
\* iterations a call of sample() may execute when its blocks draw at random
MaxIter == 2
\* calls of sample() explored in one behaviour
MaxCalls == 2
\* calls of a block sampler explored in one behaviour of its own specification
MaxBlockCalls == 2

\* ------------------------------------------------------- program constants
\* ii % 100 == 0 (line 701)
CheckpointPeriod == 100
\* update_white_params(xnew, iters=1000) (line 670)
WhiteTuneIters == 1000
\* short_chain[100:, :] (line 367)
BurnIn == 100
\* step_max = 20 (line 325)
step_max == 20
\* update_red_params(xnew, iters=10000) (line 688)
RedTuneIters == 10000

\* ------------------------------------------------------------ value domains
\* The values a Metropolis chain moves the parameter at position p between.
\* Two parameters never hold the same number (real-valued draws coincide with
\* probability zero), and no parameter holds the 0 of a row of np.zeros.
ValsAt(p) == {1000 * p, 1000 * p + 1}
\* The value a conditional draw gives position p in iteration i: a continuous
\* draw repeats no value the position held before.
FreshDraw(p, i) == 1000 * p + 2 + i
\* a proposal q[par] may leave the prior's support; this value stands for that
OutOfPrior(p) == 1000 * p + 999
\* tokens of a latent vector drawn by update_b (0 is np.zeros of __init__)
BDraws == {1}
\* the roles a parameter name is classified into (lines 167-196)
Roles == {"white", "ecorr", "red", "gwrho"}
\* the parameter layouts explored: the role of each position of the vector.
\* __init__ needs a GW-rho parameter (lines 82-84), so every layout has one.
Layouts ==
    { <<"white", "gwrho">>, <<"gwrho", "white">>, <<"red", "gwrho">>,
      <<"white", "ecorr", "gwrho">>, <<"white", "red", "gwrho">> }
\* the layouts of the long runs: no Metropolis block
LongLayouts == { <<"ecorr", "gwrho">>, <<"gwrho", "gwrho">> }
\* row counts of chain.txt and bchain.txt when the output directory holds them
TxtOptions == { <<2, 2>> }
LongTxtOptions == { <<3, 2>>, <<99, 99>> }
\* iteration counts explored for runs whose blocks draw nothing at random
LongIters == {102}
\* values of the autocorrelation estimator, in tenths (0.5, 2.5)
AcorTaus == {5, 25}
\* the layouts the block samplers are stepped through on their own
WhiteLayouts == { <<"white", "gwrho">>, <<"white", "white", "gwrho">> }
RedLayouts == { <<"red", "gwrho">>, <<"red", "red", "gwrho">> }
\* tuning steps of update_white_params explored beyond the burn-in rows
MaxTune == 3

None == {}
Some(v) == {v}
TheVal(s) == CHOOSE v \in s : TRUE

Min(a, b) == IF a <= b THEN a ELSE b

VARIABLES
    \* ---- configuration, fixed by __init__
    roles,          \* role of each parameter position (self.param_names)
    hypersample,    \* self.hypersample
    \* ---- fields of the object
    b,              \* self._b
    TNT,            \* self.TNT: None or the value computed
    d,              \* self.d
    aclength_white, \* self.aclength_white: None until tuning sets it
    ptsampler_rn,   \* self.ptsampler_rn: None until tuning builds it
    chain,          \* self.chain, rows 0..niter-1
    bchain,         \* self.bchain
    iter,           \* self.iter
    \* ---- locals of sample()
    pc, err, xs, niter, resume, startLength, ii, xnew,
    \* ---- the output directory
    files,
    \* ---- history
    calls,          \* calls of sample() so far
    iterX, iterB,   \* parameter and latent vector when the iteration began
    redrawn,        \* line 698 ran in this iteration
    cacheFresh,     \* the cache's content was computed in this iteration
    lastRead,       \* the last read of the cache in this call of sample()
    lastBlock,      \* what the last block sampler call did
    \* ---- locals of update_white_params (SpecWhite)
    w_pc, w_xs, w_iters, w_xnew, w_q, w_lnlike0, w_lnprior0, w_ii,
    w_row, w_accept,
    \* ---- locals of update_red_params (SpecRed)
    r_pc, r_xnew, r_lnlike0, r_lnprob0, r_step, r_call

objVars == <<roles, hypersample, b, TNT, d, aclength_white, ptsampler_rn>>
runVars == <<chain, bchain, iter, pc, err, xs, niter, resume, startLength, ii, xnew>>
histVars == <<calls, iterX, iterB, redrawn, cacheFresh, lastRead, lastBlock>>
whiteVars == <<w_pc, w_xs, w_iters, w_xnew, w_q, w_lnlike0, w_lnprior0, w_ii, w_row, w_accept>>
redVars == <<r_pc, r_xnew, r_lnlike0, r_lnprob0, r_step, r_call>>
vars == <<objVars, runVars, files, histVars, whiteVars, redVars>>

\* ------------------------------------------------------------ ParameterIndex
Pos == DOMAIN roles
Last == Len(roles)
Vectors == {x \in [Pos -> UNION {ValsAt(p) : p \in Pos}] : \A p \in Pos : x[p] \in ValsAt(p)}
\* a row of np.zeros
ZeroVec == [p \in Pos |-> 0]
\* the initial parameter vectors explored
StartVectors == {[p \in Pos |-> 1000 * p], [p \in Pos |-> 1000 * p + (p % 2)]}

get_gwrho_param_indices == {p \in Pos : roles[p] = "gwrho"}
get_red_param_indices == {p \in Pos : roles[p] = "red"}
get_efacequad_indices == {p \in Pos : roles[p] = "white"}
get_ecorr_indices == {p \in Pos : roles[p] = "ecorr"}

\* the vectors that differ from x at positions of idx only
DiffersOnlyAt(x, idx) == {[p \in Pos |-> IF p \in idx THEN f[p] ELSE x[p]] : f \in Vectors}

\* ------------------------------------------------------------------ the cache
\* pta.get_ndiag(params): the noise diagonal depends on the efac/equad values
Nvec(x) == [p \in get_efacequad_indices |-> x[p]]
\* np.dot(T.T, T / Nvec[:,None]) and np.dot(T.T, residuals/Nvec)
ComputeTNT(x) == <<"TNT", Nvec(x)>>
Computed(x) == <<"d", Nvec(x)>>
CacheMiss == TNT = None /\ d = None

\* lines 499-502 and 583-586: fill the cache if both fields are None, then read it
CacheUse(x) ==
    /\ TNT' = IF CacheMiss THEN Some(ComputeTNT(x)) ELSE TNT
    /\ d' = IF CacheMiss THEN Some(Computed(x)) ELSE d
    /\ cacheFresh' = IF CacheMiss THEN TRUE ELSE cacheFresh
    /\ lastRead' = Some([fresh |-> cacheFresh', TNT |-> TheVal(TNT'),
                          d |-> TheVal(d'), arg |-> x])

\* update_b(xs): one draw of the latent vector
update_b(x) ==
    /\ CacheUse(x)
    /\ b' \in BDraws

\* ------------------------------------------------------------------ files
NoFile == [present |-> FALSE, rows |-> <<>>]
File(rows) == [present |-> TRUE, rows |-> rows]
\* rows 0..n-1 of an array, as a file's sequence of rows
Rows(arr, n) == [j \in 1..n |-> arr[j - 1]]
TxtChain(n) == [j \in 1..n |-> [p \in Pos |-> 1000 * p + (j % 2)]]
TxtBchain(n) == [j \in 1..n |-> 1 + (j % 2)]

\* ------------------------------------------------------------------ Init
Fresh ==
    /\ b = 0
    /\ TNT = None
    /\ d = None
    /\ aclength_white = None
    /\ ptsampler_rn = None

NoRun ==
    /\ chain = <<>>
    /\ bchain = <<>>
    /\ iter = 0
    /\ pc = "idle"
    /\ err = ""
    /\ xs = ZeroVec
    /\ niter = 0
    /\ resume = FALSE
    /\ startLength = 0
    /\ ii = 0
    /\ xnew = ZeroVec
    /\ iterX = ZeroVec
    /\ iterB = 0
    /\ redrawn = FALSE
    /\ cacheFresh = FALSE
    /\ lastRead = None
    /\ lastBlock = "none"

WhiteIdle ==
    /\ w_pc = "idle"
    /\ w_xs = ZeroVec
    /\ w_iters = None
    /\ w_xnew = ZeroVec
    /\ w_q = ZeroVec
    /\ w_lnlike0 = 0
    /\ w_lnprior0 = 0
    /\ w_ii = 0
    /\ w_row = None
    /\ w_accept = FALSE

RedIdle ==
    /\ r_pc = "idle"
    /\ r_xnew = ZeroVec
    /\ r_lnlike0 = 0
    /\ r_lnprob0 = 0
    /\ r_step = 0
    /\ r_call = None

\* the output directory before the first call: empty, or holding a chain.txt
\* and a bchain.txt that something else put there (sample() writes neither)
OutDirs(opts) ==
    { [chain_npy |-> NoFile, bchain_npy |-> NoFile,
       chain_txt |-> NoFile, bchain_txt |-> NoFile] } \cup
    { [chain_npy |-> NoFile, bchain_npy |-> NoFile,
       chain_txt |-> File(TxtChain(t[1])),
       bchain_txt |-> File(TxtBchain(t[2]))] : t \in opts }

\* the object as __init__ leaves it (lines 59-79), no call of sample() yet
Constructed(layouts, opts) ==
    /\ roles \in layouts
    /\ hypersample \in {"conditional", "mh"}
    /\ Fresh
    /\ NoRun
    /\ calls = 0
    /\ files \in OutDirs(opts)
    /\ WhiteIdle
    /\ RedIdle

InitLong == Constructed(LongLayouts, LongTxtOptions)
Init == Constructed(Layouts, TxtOptions) \/ InitLong

\* ------------------------------------------------------------ block samplers
\* int(): truncation toward zero of a value given in tenths
int(t10) == IF t10 >= 0 THEN t10 \div 10 ELSE -((-t10) \div 10)
MaxOf(S) == CHOOSE m \in S : \A n \in S : n <= m

\* line 370-371: int(np.max([int(acor.acor(short_chain[100:,jj])[0]) for jj ...]))
\* taus[p] is the estimator's value for the column of white position p, in tenths
AcLength(taus) == MaxOf({int(taus[p]) : p \in DOMAIN taus})

\* the states n single-parameter Metropolis steps on the positions idx can reach
Reach(x, idx, n) ==
    {y \in DiffersOnlyAt(x, idx) : Cardinality({p \in idx : y[p] # x[p]}) <= n}

\* ------------------------------------------------------------------ sample()
LoopPcs == {"head", "record", "first_b", "clear", "white", "ecorr", "red",
            "gwrho", "redraw", "ckpt", "ckpt2"}

\* no block of this configuration draws a parameter at random
Deterministic ==
    /\ get_efacequad_indices = {}
    /\ get_red_param_indices = {}
    /\ hypersample # "conditional"

\* lines 642: np.min of the two row counts
minLength == Min(Len(files.chain_txt.rows), Len(files.bchain_txt.rows))

\* iteration counts explored for a call: up to MaxIter iterations, up to
\* MaxIter more than the rows a resumed run loads (L) or, when there is nothing
\* it can load, than the rows of the checkpoint in the directory (K), and a
\* long run as the first call when it draws nothing at random
NiterChoices(r) ==
    LET T == files.chain_txt.present /\ files.bchain_txt.present
        L == IF r /\ T THEN minLength ELSE 0
        K == IF r /\ ~T /\ files.chain_npy.present
             THEN Len(files.chain_npy.rows) ELSE 0
    IN  (1..MaxIter) \cup (L..(L + MaxIter)) \cup (K..(K + MaxIter)) \cup
        (IF Deterministic /\ calls = 0 THEN LongIters ELSE {})

\* np.zeros((niter, len(xs))) and np.zeros((niter, len(self._b)))
ZeroChain(n) == [j \in 0..(n - 1) |-> ZeroVec]
ZeroBchain(n) == [j \in 0..(n - 1) |-> 0]

\* lines 620-653: allocation, and the reload of a resumed run
Sample_Start(x, n, r) ==
    /\ pc \in {"idle", "done", "error"}
    /\ calls < MaxCalls
    /\ n \in NiterChoices(r)
    /\ n >= 1
    /\ calls' = calls + 1
    /\ xs' = x
    /\ niter' = n
    /\ resume' = r
    /\ iter' = 0
    /\ IF ~r
       THEN /\ chain' = ZeroChain(n)
            /\ bchain' = ZeroBchain(n)
            /\ startLength' = 0
            /\ xnew' = x
            /\ ii' = 0
            /\ pc' = "head"
            /\ err' = ""
       ELSE IF ~(files.chain_txt.present /\ files.bchain_txt.present)
       THEN \* np.loadtxt: the file does not exist
            /\ chain' = ZeroChain(n)
            /\ bchain' = ZeroBchain(n)
            /\ startLength' = 0
            /\ xnew' = x
            /\ ii' = 0
            /\ pc' = "error"
            /\ err' = "OSError"
       ELSE IF minLength > n
       THEN \* self.chain[:minLength] has niter rows: the shapes do not match
            /\ chain' = ZeroChain(n)
            /\ bchain' = ZeroBchain(n)
            /\ startLength' = 0
            /\ xnew' = x
            /\ ii' = 0
            /\ pc' = "error"
            /\ err' = "ValueError"
       ELSE /\ chain' = [j \in 0..(n - 1) |->
                            IF j < minLength THEN files.chain_txt.rows[j + 1]
                            ELSE ZeroVec]
            /\ bchain' = [j \in 0..(n - 1) |->
                            IF j < minLength THEN files.bchain_txt.rows[j + 1]
                            ELSE 0]
            /\ startLength' = minLength
            /\ xnew' = chain'[minLength - 1]
            /\ ii' = minLength
            /\ pc' = "head"
            /\ err' = ""
    /\ iterX' = x
    /\ iterB' = b
    /\ redrawn' = FALSE
    /\ lastBlock' = "none"
    /\ cacheFresh' = FALSE
    /\ lastRead' = None
    /\ UNCHANGED <<objVars, files, whiteVars, redVars>>

\* lines 656-657: the for statement; ii is the index the loop is at
Sample_LoopHead ==
    /\ pc = "head"
    /\ IF ii < niter
       THEN /\ iter' = ii
            /\ pc' = "record"
            /\ iterX' = xnew
            /\ iterB' = b
            /\ redrawn' = FALSE
            /\ cacheFresh' = FALSE
       ELSE /\ pc' = "done"
            /\ UNCHANGED <<iter, iterX, iterB, redrawn, cacheFresh>>
    /\ UNCHANGED <<objVars, chain, bchain, err, xs, niter, resume, startLength,
                   ii, xnew, files, calls, lastRead, lastBlock,
                   whiteVars, redVars>>

\* the row is written from the initial vector xs instead of the current one
Sample_Record_RecordsXs ==
    /\ pc = "record"
    /\ chain' = [chain EXCEPT ![ii] = xs]
    /\ bchain' = [bchain EXCEPT ![ii] = b]
    /\ pc' = "first_b"
    /\ UNCHANGED <<objVars, iter, err, xs, niter, resume, startLength, ii, xnew,
                   files, histVars, whiteVars, redVars>>

\* lines 658-659
Sample_Record ==
    /\ pc = "record"
    /\ chain' = [chain EXCEPT ![ii] = xnew]
    /\ bchain' = [bchain EXCEPT ![ii] = b]
    /\ pc' = "first_b"
    /\ UNCHANGED <<objVars, iter, err, xs, niter, resume, startLength, ii, xnew,
                   files, histVars, whiteVars, redVars>>

\* lines 661-662
Sample_FirstB ==
    /\ pc = "first_b"
    /\ IF ii = 0
       THEN update_b(xs)
       ELSE UNCHANGED <<b, TNT, d, cacheFresh, lastRead>>
    /\ pc' = "clear"
    /\ UNCHANGED <<roles, hypersample, aclength_white, ptsampler_rn, chain,
                   bchain, iter, err, xs, niter, resume, startLength, ii, xnew,
                   files, calls, iterX, iterB, redrawn, lastBlock,
                   whiteVars, redVars>>

\* lines 664-665
Sample_ClearCache ==
    /\ pc = "clear"
    /\ TNT' = None
    /\ d' = None
    /\ cacheFresh' = FALSE
    /\ pc' = "white"
    /\ UNCHANGED <<roles, hypersample, b, aclength_white, ptsampler_rn, chain,
                   bchain, iter, err, xs, niter, resume, startLength, ii, xnew,
                   files, calls, iterX, iterB, redrawn, lastRead, lastBlock,
                   whiteVars, redVars>>

\* lines 667-672, with update_white_params (lines 332-406) as one step
Sample_White ==
    /\ pc = "white"
    /\ IF get_efacequad_indices = {}
       THEN /\ pc' = "ecorr"
            /\ lastBlock' = "white_skipped"
            /\ UNCHANGED <<xnew, aclength_white, err>>
       ELSE IF ii = 0
       THEN \E y \in Reach(xnew, get_efacequad_indices, WhiteTuneIters),
               taus \in [get_efacequad_indices -> AcorTaus] :
                /\ xnew' = y
                /\ aclength_white' = Some(AcLength(taus))
                /\ pc' = "ecorr"
                /\ lastBlock' = "white_tuning"
                /\ err' = err
       ELSE IF aclength_white = None
       THEN \* line 375 reads an attribute that tuning never set
            /\ pc' = "error"
            /\ err' = "AttributeError"
            /\ lastBlock' = "white_production"
            /\ UNCHANGED <<xnew, aclength_white>>
       ELSE \E y \in Reach(xnew, get_efacequad_indices, TheVal(aclength_white)) :
                /\ xnew' = y
                /\ pc' = "ecorr"
                /\ lastBlock' = "white_production"
                /\ UNCHANGED <<aclength_white, err>>
    /\ UNCHANGED <<roles, hypersample, b, TNT, d, ptsampler_rn, chain, bchain,
                   iter, xs, niter, resume, startLength, ii, files, calls,
                   iterX, iterB, redrawn, cacheFresh, lastRead,
                   whiteVars, redVars>>

\* lines 675-683: the block's call is commented out; the branch only prints
Sample_Ecorr ==
    /\ pc = "ecorr"
    /\ lastBlock' = IF get_ecorr_indices # {} THEN "ecorr_printed" ELSE "ecorr_skipped"
    /\ pc' = "red"
    /\ UNCHANGED <<objVars, chain, bchain, iter, err, xs, niter, resume,
                   startLength, ii, xnew, files, calls, iterX, iterB, redrawn,
                   cacheFresh, lastRead, whiteVars, redVars>>

\* lines 685-690, with update_red_params (lines 271-329) as one step.
\* Tuning evaluates get_lnlikelihood_fullmarg first at the vector passed in
\* (line 283), which fills the cache; its final engine step proposes over the
\* whole vector (groups=None).
Sample_Red ==
    /\ pc = "red"
    /\ IF get_red_param_indices = {}
       THEN /\ pc' = "gwrho"
            /\ lastBlock' = "red_skipped"
            /\ UNCHANGED <<xnew, ptsampler_rn, err, TNT, d, cacheFresh, lastRead>>
       ELSE IF ii = 0
       THEN \E y \in Vectors :
                /\ CacheUse(xnew)
                /\ xnew' = y
                /\ ptsampler_rn' = Some("red_noise_group")
                /\ pc' = "gwrho"
                /\ lastBlock' = "red_tuning"
                /\ err' = err
       ELSE IF ptsampler_rn = None
       THEN \* line 327 reads an attribute that tuning never set
            /\ pc' = "error"
            /\ err' = "AttributeError"
            /\ lastBlock' = "red_production"
            /\ UNCHANGED <<xnew, ptsampler_rn, TNT, d, cacheFresh, lastRead>>
       ELSE \E y \in Reach(xnew, get_red_param_indices, step_max) :
                /\ xnew' = y
                /\ pc' = "gwrho"
                /\ lastBlock' = "red_production"
                /\ UNCHANGED <<ptsampler_rn, err, TNT, d, cacheFresh, lastRead>>
    /\ UNCHANGED <<roles, hypersample, b, aclength_white, chain, bchain, iter,
                   xs, niter, resume, startLength, ii, files, calls, iterX,
                   iterB, redrawn, whiteVars, redVars>>

\* a redraw that does not stop at the GW-rho positions
update_gwrho_params_AllPositions(x) ==
    IF hypersample = "conditional"
    THEN [p \in Pos |-> FreshDraw(p, ii)]
    ELSE x

\* update_gwrho_params (lines 199-268): every GW-rho position is redrawn in
\* 'conditional' mode; any other mode prints and returns the copy unchanged
update_gwrho_params(x) ==
    IF hypersample = "conditional"
    THEN [p \in Pos |-> IF p \in get_gwrho_param_indices
                        THEN FreshDraw(p, ii) ELSE x[p]]
    ELSE x

\* lines 692-694
Sample_GwRho ==
    /\ pc = "gwrho"
    /\ IF get_gwrho_param_indices = {}
       THEN /\ xnew' = xnew
            /\ lastBlock' = "gwrho_skipped"
       ELSE /\ xnew' = update_gwrho_params(xnew)
            /\ lastBlock' = IF hypersample = "conditional"
                            THEN "gwrho_conditional" ELSE "gwrho_printed"
    /\ pc' = "redraw"
    /\ UNCHANGED <<objVars, chain, bchain, iter, err, xs, niter, resume,
                   startLength, ii, files, calls, iterX, iterB, redrawn,
                   cacheFresh, lastRead, whiteVars, redVars>>

\* line 697: np.all(xnew != self.chain[ii,-1]); chain[ii,-1] is one number,
\* the last parameter of the row, and every position of xnew is compared to it
RedrawTest == \A p \in Pos : xnew[p] # chain[ii][Last]

\* lines 696-698
Sample_Redraw ==
    /\ pc = "redraw"
    /\ IF RedrawTest
       THEN /\ update_b(xnew)
            /\ redrawn' = TRUE
       ELSE UNCHANGED <<b, TNT, d, cacheFresh, lastRead, redrawn>>
    /\ pc' = "ckpt"
    /\ UNCHANGED <<roles, hypersample, aclength_white, ptsampler_rn, chain,
                   bchain, iter, err, xs, niter, resume, startLength, ii, xnew,
                   files, calls, iterX, iterB, lastBlock, whiteVars, redVars>>

\* the test without its ii > 0
CheckpointDue_AtZero == ii % CheckpointPeriod = 0

\* line 701
CheckpointDue == ii % CheckpointPeriod = 0 /\ ii > 0

\* lines 701-709: np.save of chain[:ii+1]; when no checkpoint is due the loop
\* goes on to the next index
Sample_Checkpoint ==
    /\ pc = "ckpt"
    /\ IF CheckpointDue
       THEN /\ files' = [files EXCEPT !.chain_npy = File(Rows(chain, ii + 1))]
            /\ pc' = "ckpt2"
            /\ ii' = ii
       ELSE /\ files' = files
            /\ pc' = "head"
            /\ ii' = ii + 1
    /\ UNCHANGED <<objVars, chain, bchain, iter, err, xs, niter, resume,
                   startLength, xnew, histVars, whiteVars, redVars>>

\* line 710: np.save of bchain[:ii+1]
Sample_CheckpointB ==
    /\ pc = "ckpt2"
    /\ files' = [files EXCEPT !.bchain_npy = File(Rows(bchain, ii + 1))]
    /\ pc' = "head"
    /\ ii' = ii + 1
    /\ UNCHANGED <<objVars, chain, bchain, iter, err, xs, niter, resume,
                   startLength, xnew, histVars, whiteVars, redVars>>

\* The process ends (killed inside the loop, or left after sample() returned
\* or raised) and a new process constructs the object again (__init__, lines
\* 59-79); only the output directory survives.
NewProcess ==
    /\ pc \in LoopPcs \cup {"done", "error"}
    /\ b' = 0
    /\ TNT' = None
    /\ d' = None
    /\ aclength_white' = None
    /\ ptsampler_rn' = None
    /\ chain' = <<>>
    /\ bchain' = <<>>
    /\ iter' = 0
    /\ pc' = "idle"
    /\ err' = ""
    /\ xs' = ZeroVec
    /\ niter' = 0
    /\ resume' = FALSE
    /\ startLength' = 0
    /\ ii' = 0
    /\ xnew' = ZeroVec
    /\ iterX' = ZeroVec
    /\ iterB' = 0
    /\ redrawn' = FALSE
    /\ cacheFresh' = FALSE
    /\ lastRead' = None
    /\ lastBlock' = "none"
    /\ UNCHANGED <<roles, hypersample, files, calls, whiteVars, redVars>>

Next ==
    \/ \E x \in StartVectors, n \in 1..(CheckpointPeriod + 1 + MaxIter), r \in BOOLEAN :
            Sample_Start(x, n, r)
    \/ Sample_LoopHead
    \/ Sample_Record
    \/ Sample_FirstB
    \/ Sample_ClearCache
    \/ Sample_White
    \/ Sample_Ecorr
    \/ Sample_Red
    \/ Sample_GwRho
    \/ Sample_Redraw
    \/ Sample_Checkpoint
    \/ Sample_CheckpointB
    \/ NewProcess

Spec == Init /\ [][Next]_vars

\* ------------------------------------------------- update_white_params alone
\* The scores below stand for the log-likelihoods: a parameter's token
\* contributes its offset within ValsAt, so two vectors that differ at a
\* position the likelihood depends on get different scores.
Score(v) == v % 1000
RECURSIVE SumScore(_, _)
SumScore(x, S) ==
    IF S = {} THEN 0
    ELSE LET p == CHOOSE q \in S : TRUE IN Score(x[p]) + SumScore(x, S \ {p})

\* get_lnprior (lines 613-618): the sum of the parameters' log-pdfs, -inf when
\* a parameter is outside its prior's support (MinusInf stands for -inf)
MinusInf == 0 - 1000 * 1000
InPrior(x) == \A p \in Pos : x[p] # OutOfPrior(p)
get_lnprior(x) == IF InPrior(x) THEN 0 ELSE MinusInf
\* get_lnlikelihood_white (lines 523-546): depends on x through the noise diagonal
get_lnlikelihood_white(x) == SumScore(x, get_efacequad_indices)
\* get_lnlikelihood_red (lines 549-566): depends on x through the red-noise psd
get_lnlikelihood_red(x) == SumScore(x, get_red_param_indices \cup get_gwrho_param_indices)

\* lines 345-351 and 377-383: q is a copy of xnew moved at one white position
Proposals(x) ==
    UNION { {[x EXCEPT ![par] = v] :
                v \in (ValsAt(par) \cup {OutOfPrior(par)}) \ {x[par]}} :
            par \in get_efacequad_indices }
\* lines 357-358: diff > np.log(np.random.rand()); the right side is negative,
\* so a diff >= 0 accepts, a diff of -inf rejects, anything between may do either
MayAccept(q) == InPrior(q)
MayReject(q) ==
    (get_lnlikelihood_white(q) + get_lnprior(q)) - (w_lnlike0 + w_lnprior0) < 0
\* q[wind]
AtWind(x) == [p \in get_efacequad_indices |-> x[p]]

\* lines 335-342: the call, up to the loop
White_Call(x, it) ==
    /\ w_pc = "idle"
    /\ calls < MaxBlockCalls
    /\ calls' = calls + 1
    /\ w_xs' = x
    /\ w_iters' = it
    /\ w_xnew' = x
    /\ w_lnlike0' = get_lnlikelihood_white(x)
    /\ w_lnprior0' = get_lnprior(x)
    /\ w_q' = ZeroVec
    /\ w_ii' = 0
    /\ w_row' = None
    /\ w_accept' = FALSE
    /\ IF it # None THEN w_pc' = "tune"
       ELSE IF aclength_white = None THEN w_pc' = "error"
       ELSE w_pc' = "prod"
    /\ UNCHANGED <<objVars, runVars, files, iterX, iterB, redrawn, cacheFresh,
                   lastRead, lastBlock, redVars>>

\* lines 343-365: one pass of the tuning loop
White_TuneStep(q, acc) ==
    /\ w_pc = "tune"
    /\ w_ii < TheVal(w_iters)
    /\ q \in Proposals(w_xnew)
    /\ IF acc THEN MayAccept(q) ELSE MayReject(q)
    /\ w_q' = q
    /\ w_accept' = acc
    /\ w_xnew' = IF acc THEN q ELSE w_xnew
    /\ w_lnlike0' = IF acc THEN get_lnlikelihood_white(q) ELSE w_lnlike0
    /\ w_lnprior0' = IF acc THEN get_lnprior(q) ELSE w_lnprior0
    /\ w_row' = Some(AtWind(q))
    /\ w_ii' = w_ii + 1
    /\ UNCHANGED <<objVars, runVars, files, histVars, w_pc, w_xs, w_iters, redVars>>

\* lines 367-371: the statistics of short_chain[100:] and the thinning length
White_TuneFinish ==
    /\ w_pc = "tune"
    /\ w_ii = TheVal(w_iters)
    /\ \E taus \in [get_efacequad_indices -> AcorTaus] :
            aclength_white' = Some(AcLength(taus))
    /\ w_pc' = "ret"
    /\ UNCHANGED <<roles, hypersample, b, TNT, d, ptsampler_rn, runVars, files,
                   histVars, w_xs, w_iters, w_xnew, w_q, w_lnlike0, w_lnprior0,
                   w_ii, w_row, w_accept, redVars>>

\* lines 375-404: one pass of the production loop
White_ProdStep(q, acc) ==
    /\ w_pc = "prod"
    /\ w_ii < TheVal(aclength_white)
    /\ q \in Proposals(w_xnew)
    /\ IF acc THEN MayAccept(q) ELSE MayReject(q)
    /\ w_q' = q
    /\ w_accept' = acc
    /\ w_xnew' = IF acc THEN q ELSE w_xnew
    /\ w_lnlike0' = IF acc THEN get_lnlikelihood_white(q) ELSE w_lnlike0
    /\ w_lnprior0' = IF acc THEN get_lnprior(q) ELSE w_lnprior0
    /\ w_ii' = w_ii + 1
    /\ UNCHANGED <<objVars, runVars, files, histVars, w_pc, w_xs, w_iters,
                   w_row, redVars>>

\* line 406: return xnew (or the AttributeError of line 375 reaches the caller)
White_Return ==
    /\ \/ w_pc \in {"ret", "error"}
       \/ w_pc = "prod" /\ w_ii >= TheVal(aclength_white)
    /\ w_pc' = "idle"
    /\ UNCHANGED <<objVars, runVars, files, histVars, w_xs, w_iters, w_xnew,
                   w_q, w_lnlike0, w_lnprior0, w_ii, w_row, w_accept, redVars>>

InitWhite == Constructed(WhiteLayouts, {}) /\ hypersample = "conditional"

NextWhite ==
    \/ \E x \in StartVectors, it \in {None, Some(BurnIn + MaxTune)} : White_Call(x, it)
    \/ \E q \in Proposals(w_xnew), acc \in BOOLEAN : White_TuneStep(q, acc)
    \/ White_TuneFinish
    \/ \E q \in Proposals(w_xnew), acc \in BOOLEAN : White_ProdStep(q, acc)
    \/ White_Return

SpecWhite == InitWhite /\ [][NextWhite]_vars

\* --------------------------------------------------- update_red_params alone
\* lines 279-315: tuning. The engine's run over the whole vector is opaque;
\* what the caller sees is the fill of the cache by line 283 and the state the
\* one step of line 297 returns.
Red_Tune(x) ==
    \E y \in Vectors :
        /\ CacheUse(x)
        /\ r_xnew' = y
        /\ ptsampler_rn' = Some("red_noise_group")
        /\ r_pc' = "ret"
        /\ UNCHANGED <<r_lnlike0, r_lnprob0, r_step>>

\* lines 321-325: production, up to the loop
Red_ProdStart(x) ==
    /\ r_xnew' = x
    /\ r_lnlike0' = get_lnlikelihood_red(x)
    /\ r_lnprob0' = get_lnlikelihood_red(x) + get_lnprior(x)
    /\ r_step' = 0
    /\ r_pc' = IF ptsampler_rn = None THEN "error" ELSE "prod"
    /\ UNCHANGED <<TNT, d, cacheFresh, lastRead, ptsampler_rn>>

\* lines 274-325
Red_Call(x, it) ==
    /\ r_pc = "idle"
    /\ calls < MaxBlockCalls
    /\ calls' = calls + 1
    /\ r_call' = None
    /\ IF it # None THEN Red_Tune(x) ELSE Red_ProdStart(x)
    /\ UNCHANGED <<roles, hypersample, b, aclength_white, runVars, files,
                   iterX, iterB, redrawn, lastBlock, whiteVars>>

\* the triple the engine is called with
EngineCall(x, lnlike, lnprob) == [x |-> x, lnlike0 |-> lnlike, lnprob0 |-> lnprob]

\* lines 326-327: one pass of the loop. PTMCMCOneStep proposes over the group
\* [rind] and returns the state it ends in; only that state is kept.
Red_ProdStep ==
    /\ r_pc = "prod"
    /\ r_step < step_max
    /\ r_call' = Some(EngineCall(r_xnew, r_lnlike0, r_lnprob0))
    /\ r_xnew' \in DiffersOnlyAt(r_xnew, get_red_param_indices)
    /\ r_step' = r_step + 1
    /\ UNCHANGED <<objVars, runVars, files, histVars, whiteVars, r_pc,
                   r_lnlike0, r_lnprob0>>

\* line 329: return xnew (or the AttributeError of line 327 reaches the caller)
Red_Return ==
    /\ \/ r_pc \in {"ret", "error"}
       \/ r_pc = "prod" /\ r_step = step_max
    /\ r_pc' = "idle"
    /\ UNCHANGED <<objVars, runVars, files, histVars, whiteVars, r_xnew,
                   r_lnlike0, r_lnprob0, r_step, r_call>>

InitRed == Constructed(RedLayouts, {}) /\ hypersample = "conditional"

NextRed ==
    \/ \E x \in StartVectors, it \in {None, Some(RedTuneIters)} : Red_Call(x, it)
    \/ Red_ProdStep
    \/ Red_Return

SpecRed == InitRed /\ [][NextRed]_vars

\* ------------------------------------ the block samplers called one by one
\* update_gwrho_params(self, xs) names its parameter xs and its local xnew as
\* sample() does; called on its own, these two variables hold them.
\* lines 199-204: the call and xnew = xs.copy()
Gw_Call(x) ==
    /\ pc = "idle"
    /\ w_pc = "idle"
    /\ calls < MaxBlockCalls
    /\ calls' = calls + 1
    /\ xs' = x
    /\ xnew' = x
    /\ pc' = "gw_body"
    /\ UNCHANGED <<objVars, chain, bchain, iter, err, niter, resume, startLength,
                   ii, files, iterX, iterB, redrawn, cacheFresh, lastRead,
                   lastBlock, whiteVars, redVars>>

\* lines 206-239: the draw written into the copy, or the message
Gw_Body ==
    /\ pc = "gw_body"
    /\ xnew' = update_gwrho_params(xnew)
    /\ pc' = "gw_ret"
    /\ UNCHANGED <<objVars, chain, bchain, iter, err, xs, niter, resume,
                   startLength, ii, files, histVars, whiteVars, redVars>>

\* line 268: return xnew; the call's frame is gone
Gw_Return ==
    /\ pc = "gw_ret"
    /\ pc' = "idle"
    /\ xs' = ZeroVec
    /\ xnew' = ZeroVec
    /\ UNCHANGED <<objVars, chain, bchain, iter, err, niter, resume, startLength,
                   ii, files, histVars, whiteVars, redVars>>

InitBlocks ==
    /\ roles \in WhiteLayouts
    /\ hypersample \in {"conditional", "mh"}
    /\ Fresh
    /\ NoRun
    /\ calls = 0
    /\ files \in OutDirs({})
    /\ WhiteIdle
    /\ RedIdle

NextBlocks ==
    \/ pc = "idle" /\ NextWhite
    \/ \E x \in StartVectors : Gw_Call(x)
    \/ Gw_Body
    \/ Gw_Return

SpecBlocks == InitBlocks /\ [][NextBlocks]_vars

\* ------------------------------------------------------------------ claims

\* rows of this call's iterations that have been written
Written(j) == j >= startLength /\ (j < ii \/ (j = ii /\ pc \notin {"head", "record"}))
InRun(p) == p \in LoopPcs \cup {"done", "error"}

C1_Step ==
    /\ (pc = "record" /\ pc' = "first_b")
          => (chain'[ii] = iterX /\ bchain'[ii] = iterB)
    /\ (pc \in LoopPcs /\ InRun(pc'))
          => \A j \in 0..(niter - 1) :
                Written(j) => (chain'[j] = chain[j] /\ bchain'[j] = bchain[j])

\* C1: the row written for iteration i holds the parameter vector and the
\* latent vector as they were when iteration i began, before any block update
\* or latent redraw, and no later step of the call changes a written row.
C1_RowsHoldIterationStart == [][C1_Step]_vars

\* a call of two iterations ended with two different rows in both chains
C1_Witness ==
    /\ pc = "done"
    /\ niter = 2
    /\ startLength = 0
    /\ chain[0] # chain[1]
    /\ bchain[0] # bchain[1]
    /\ xnew # chain[1]

\* C2: at the end of an iteration (all blocks have run) the latent vector has
\* been redrawn if and only if the parameter vector differs in at least one
\* position from the row recorded at the start of the iteration. Stated for
\* the supported 'conditional' mode, in which every block that has positions
\* in the vector samples them.
C2_RedrawIffChanged ==
    (pc = "ckpt" /\ hypersample = "conditional") => (redrawn <=> xnew # chain[ii])

\* C3: a run restarted with resume=True on an output directory that holds the
\* snapshots of a checkpoint (and nothing the run did not write) reloads both
\* snapshots, takes the minimum of their row counts and continues after their
\* last common row, so the rows up to there are those the checkpoint stored.
C3_ResumeReloadsCheckpoint ==
    ( /\ resume
      /\ files.chain_npy.present /\ files.bchain_npy.present
      /\ ~files.chain_txt.present /\ ~files.bchain_txt.present
      /\ niter >= Len(files.chain_npy.rows)
      /\ \/ pc = "error" /\ err \in {"OSError", "ValueError"}
         \/ pc = "head" /\ ii = startLength )
    => ( /\ pc = "head"
         /\ startLength = Min(Len(files.chain_npy.rows), Len(files.bchain_npy.rows))
         /\ \A j \in 0..(startLength - 1) :
               /\ chain[j] = files.chain_npy.rows[j + 1]
               /\ bchain[j] = files.bchain_npy.rows[j + 1] )

\* C4: after tuning, the stored thinning length is an integer >= 1, whatever
\* the autocorrelation estimator returned.
C4_AclengthAtLeastOne == aclength_white # None => TheVal(aclength_white) >= 1

\* C5: with a hypersample mode other than 'conditional' no iteration of
\* sample() runs, and update_gwrho_params never returns its input unchanged
\* after printing.
C5_NonConditionalFailsAtSetup ==
    hypersample # "conditional"
        => (pc \in {"idle", "head", "error"} /\ lastBlock # "gwrho_printed")

\* C6: when the vector has correlated-noise positions, reaching the
\* correlated-noise block stops sample() with an error; the loop does not go
\* on to the remaining blocks.
C6_EcorrFailsFast ==
    (get_ecorr_indices # {} /\ lastBlock = "ecorr_printed") => pc = "error"

C7_Step ==
    /\ files' # files => (pc \in {"ckpt", "ckpt2"} /\ CheckpointDue)
    /\ (pc = "ckpt" /\ InRun(pc'))
          => IF ii > 0 /\ ii % CheckpointPeriod = 0
             THEN /\ pc' = "ckpt2"
                  /\ chain[ii] = iterX
                  /\ lastBlock \in {"gwrho_conditional", "gwrho_printed"}
                  /\ \A j \in (ii + 1)..(niter - 1) : chain[j] = ZeroVec
                  /\ files' = [files EXCEPT !.chain_npy = File(Rows(chain, ii + 1))]
             ELSE files' = files /\ pc' = "head"
    /\ (pc = "ckpt2" /\ InRun(pc'))
          => /\ pc' = "head"
             /\ \A j \in (ii + 1)..(niter - 1) : bchain[j] = 0
             /\ files'.chain_npy = File(Rows(chain, ii + 1))
             /\ files'.bchain_npy = File(Rows(bchain, ii + 1))

\* C7: the snapshots are written exactly in the iterations i > 0 with
\* i mod 100 = 0, after row i and every block update and the latent redraw of
\* iteration i, before row i+1 is written, and they hold rows 0..i of the
\* parameter chain and of the latent chain.
C7_CheckpointEveryHundred == [][C7_Step]_vars

\* iteration 100 has checkpointed rows 0..100 and the loop is at index 101
C7_Witness ==
    /\ pc = "head"
    /\ ii = CheckpointPeriod + 1
    /\ niter > ii
    /\ files.chain_npy = File(Rows(chain, ii))
    /\ files.bchain_npy = File(Rows(bchain, ii))
    /\ chain[0] # chain[1]

\* C8: the cache is empty when the first block sampler of an iteration starts,
\* and whenever update_b or get_lnlikelihood_fullmarg reads it, its content was
\* computed in the same outer iteration.
C8_CacheOneIterationLifetime ==
    /\ pc = "white" => (TNT = None /\ d = None)
    /\ lastRead # None => TheVal(lastRead).fresh

\* C9: at every call of the engine's one-step operation in production mode the
\* log-likelihood and the log-posterior passed in are those of the state
\* passed in.
C9_EngineTripleConsistent ==
    r_call # None =>
        LET c == TheVal(r_call)
        IN  /\ c.lnlike0 = get_lnlikelihood_red(c.x)
            /\ c.lnprob0 = get_lnlikelihood_red(c.x) + get_lnprior(c.x)

\* C10: every row of the tuning sub-chain that enters the covariance and the
\* autocorrelation time (index >= 100) is the block's chain state after the
\* accept/reject decision: the proposal when accepted, the unchanged current
\* state when rejected.
C10_SubChainRecordsStates ==
    (w_pc = "tune" /\ w_ii > BurnIn) => w_row = Some(AtWind(w_xnew))

\* positions outside idx hold in y what they hold in x
SameOutside(x, y, idx) == \A p \in Pos \ idx : y[p] = x[p]

C11_Step ==
    /\ w_pc # "idle" => w_xs' = w_xs
    /\ w_pc' \in {"tune", "prod", "ret"}
          => SameOutside(w_xs', w_xnew', get_efacequad_indices)
    /\ pc \in {"gw_body", "gw_ret"} /\ pc' # "idle" => xs' = xs
    /\ pc' = "gw_ret" => SameOutside(xs', xnew', get_gwrho_param_indices)

\* C11: the vector update_white_params (tuning or production) works on and
\* returns differs from its input at white-noise positions only, the vector
\* update_gwrho_params returns differs from its input at GW-rho positions
\* only, and neither call changes the input vector it was given.
C11_BlocksKeepTheirFrame == [][C11_Step]_vars

\* a white-noise call has returned a moved vector, and a conditional GW-rho
\* call is returning one
C11_Witness ==
    /\ calls = 2
    /\ w_pc = "idle"
    /\ w_ii > 0
    /\ w_xnew # w_xs
    /\ pc = "gw_ret"
    /\ xnew # xs

\* C12: in every call of sample(), fresh or resumed, white-noise and red-noise
\* production mode run only after iteration 0 of the same call has tuned the
\* block, and production mode never fails for want of the thinning length or
\* of the engine that tuning leaves behind.
C12_ProductionAfterTuning ==
    /\ lastBlock \in {"white_production", "red_production"} => startLength = 0
    /\ err # "AttributeError"

\* C13: whenever update_b or get_lnlikelihood_fullmarg reads the cached TNT
\* and d, they are the values computed from the noise diagonal of the
\* parameter vector passed to that call.
C13_CacheMatchesArgument ==
    lastRead # None =>
        LET r == TheVal(lastRead)
        IN  r.TNT = ComputeTNT(r.arg) /\ r.d = Computed(r.arg)

\* C14: when a call of sample() that ran all its niter iterations returns
\* normally, the two snapshots in the output directory hold all niter recorded
\* rows of the parameter chain and of the latent chain.
C14_SnapshotsHoldAllRows ==
    (pc = "done" /\ startLength = 0) =>
        /\ files.chain_npy = File(Rows(chain, niter))
        /\ files.bchain_npy = File(Rows(bchain, niter))

====
